---------------------------- MODULE Spec2Model ----------------------------
(***************************************************************************)
(* Mini Triangle compiler: Scanner (src/scanner.py), Parser                *)
(* (src/parser.py) and CodeGen (src/codegen.py).                           *)
(*                                                                         *)
(* The scanner is modelled as a state machine that consumes one character  *)
(* per step, the parser and the code generator as recursive operators      *)
(* applied by one action each.  Four specifications share the variables:   *)
(*   Spec      the pipeline of codegen.py's driver: scan, parse, generate; *)
(*   FairSpec  the same with weak fairness of the scanner's steps;         *)
(*   ParseSpec a Parser constructed on a token list;                       *)
(*   CursorSpec the token cursor of a Parser under calls of token_accept   *)
(*             and token_accept_any;                                       *)
(*   GenSpec   a CodeGen constructed on a Program tree.                    *)
(*                                                                         *)
(* Python's dynamically typed Token.val is split in two fields: val, the   *)
(* string of an identifier or operator ("" otherwise), and num, the        *)
(* integer of a literal (and the 0 that every other token carries).        *)
(***************************************************************************)
EXTENDS Naturals, Integers, Sequences, FiniteSets, TLC

VARIABLES
    pc,         \* where the driver / the scanner is
    text,       \* Scanner.inputstr: the source text, a sequence of characters
    pos,        \* Scanner.pos
    char,       \* Scanner.char ("" once the input is exhausted)
    eot,        \* Scanner.eot
    lexeme,     \* numlist / charList of scan_int / scan_chars
    lexpos,     \* the local pos of scan_int / scan_chars
    tokens,     \* Scanner.tokens, then Parser.tokens
    error,      \* the exception that ended the run, or NoError
    curindex,   \* Parser.curindex
    curtoken,   \* Parser.curtoken
    tree,       \* the Program the parser returned, CodeGen.tree
    code        \* the instruction list generate returns

vars == <<pc, text, pos, char, eot, lexeme, lexpos, tokens, error, curindex, curtoken,
          tree, code>>

-----------------------------------------------------------------------------
(* Bounds of the model *)

\* longest enumerated source text (Spec)
MaxTextLen == 3
\* how many characters past the end of the text the cursor is followed
MaxOverrun == 2
\* longest enumerated token list, EOT not counted (ParseSpec)
MaxTokens == 2
\* most operands of an enumerated expression (ParseSpec)
MaxOperands == 3
\* most commands, semicolons and ends after the `begin` of an enumerated block
MaxBlockItems == 7
\* deepest nesting of the enumerated commands (GenSpec)
MaxDepth == 2

\* deepest operand stack the stack analysis of generated code follows
MaxStack == 4

-----------------------------------------------------------------------------
(* Token constants, src/scanner.py:10-30 *)

TK_IDENTIFIER == 0
TK_INTLITERAL == 1
TK_OPERATOR == 2
TK_BEGIN == 3
TK_CONST == 4
TK_DO == 5
TK_ELSE == 6
TK_END == 7
TK_IF == 8
TK_IN == 9
TK_LET == 10
TK_THEN == 11
TK_VAR == 12
TK_WHILE == 13
TK_SEMICOLON == 14
TK_COLON == 15
TK_BECOMES == 16
TK_IS == 17
TK_LPAREN == 18
TK_RPAREN == 19
TK_EOT == 20

OPER == {"+", "-", "*", "/", "<", ">", "=", "\\"}

Token(type, val, num, p) == [type |-> type, val |-> val, num |-> num, pos |-> p]
\* Parser.curtoken while no Parser is constructed
NoToken == Token(0 - 1, "", 0, 0)

NoError == [kind |-> "none", pos |-> 0, type |-> 0, char |-> "", site |-> ""]
ScannerError(p, c) == [kind |-> "ScannerError", pos |-> p, type |-> 0, char |-> c, site |-> "scan_token"]
ParserError(p, type, site) == [kind |-> "ParserError", pos |-> p, type |-> type, char |-> "", site |-> site]

-----------------------------------------------------------------------------
(* Character classes: str.isspace, str.isdigit, str.isalpha, str.isalnum *)

Digits == {"0", "1", "2", "3", "4", "5", "6", "7", "8", "9"}
Letters == {"a", "b", "c", "d", "e", "f", "g", "h", "i", "j", "k", "l", "m",
            "n", "o", "p", "q", "r", "s", "t", "u", "v", "w", "x", "y", "z",
            "A", "B", "C", "D", "E", "F", "G", "H", "I", "J", "K", "L", "M",
            "N", "O", "P", "Q", "R", "S", "T", "U", "V", "W", "X", "Y", "Z"}
Spaces == {" ", "\t", "\n", "\r"}

isspace(c) == c \in Spaces
isdigit(c) == c \in Digits
isalpha(c) == c \in Letters
isalnum(c) == c \in Letters \cup Digits

DigitVal(c) ==
    CASE c = "0" -> 0 [] c = "1" -> 1 [] c = "2" -> 2 [] c = "3" -> 3
      [] c = "4" -> 4 [] c = "5" -> 5 [] c = "6" -> 6 [] c = "7" -> 7
      [] c = "8" -> 8 [] c = "9" -> 9

\* int(string.join(numlist, '')): the decimal value of a digit run
RECURSIVE IntOf(_)
IntOf(ds) ==
    IF ds = <<>> THEN 0
    ELSE 10 * IntOf(SubSeq(ds, 1, Len(ds) - 1)) + DigitVal(ds[Len(ds)])

\* string.join(charList, '')
RECURSIVE Join(_)
Join(cs) == IF cs = <<>> THEN "" ELSE Head(cs) \o Join(Tail(cs))

-----------------------------------------------------------------------------
(* Scanner *)

\* Scanner.char_pos
char_pos == pos - 1

\* The character StringIO.read(1) returns once p characters were read
ReadChar(p) == IF p < Len(text) THEN text[p + 1] ELSE ""

\* Scanner.char_take: read the next character, set eot at the end, advance pos
char_take ==
    /\ char' = ReadChar(pos)
    /\ eot' = (eot \/ ReadChar(pos) = "")
    /\ pos' = pos + 1

\* The keyword table of scan_chars
KeywordToken(word, p) ==
    CASE word = "begin" -> Token(TK_BEGIN, "", 0, p)
      [] word = "const" -> Token(TK_CONST, "", 0, p)
      [] word = "do"    -> Token(TK_DO, "", 0, p)
      [] word = "else"  -> Token(TK_ELSE, "", 0, p)
      [] word = "end"   -> Token(TK_END, "", 0, p)
      [] word = "if"    -> Token(TK_IF, "", 0, p)
      [] word = "in"    -> Token(TK_IN, "", 0, p)
      [] word = "let"   -> Token(TK_LET, "", 0, p)
      [] word = "then"  -> Token(TK_THEN, "", 0, p)
      [] word = "var"   -> Token(TK_VAR, "", 0, p)
      [] word = "while" -> Token(TK_WHILE, "", 0, p)
      [] OTHER          -> Token(TK_IDENTIFIER, word, 0, p)

PunctType(c) ==
    CASE c = ";" -> TK_SEMICOLON
      [] c = "~" -> TK_IS
      [] c = "(" -> TK_LPAREN
      [] c = ")" -> TK_RPAREN

ScanIdle == UNCHANGED <<text, curindex, curtoken, tree, code>>

\* scan_token, c.isspace(): take the character and loop
ScanSpace ==
    /\ pc = "scan_token" /\ ~eot /\ isspace(char)
    /\ char_take
    /\ UNCHANGED <<pc, lexeme, lexpos, tokens, error>>
    /\ ScanIdle

\* scan_token, c.isdigit(): scan_int takes the first digit
ScanIntStart ==
    /\ pc = "scan_token" /\ ~eot /\ isdigit(char)
    /\ lexpos' = char_pos
    /\ lexeme' = <<char>>
    /\ char_take
    /\ pc' = "scan_int"
    /\ UNCHANGED <<tokens, error>>
    /\ ScanIdle

\* scan_int: one turn of its loop
ScanIntLoop ==
    /\ pc = "scan_int" /\ isdigit(char)
    /\ lexeme' = Append(lexeme, char)
    /\ char_take
    /\ UNCHANGED <<pc, lexpos, tokens, error>>
    /\ ScanIdle

\* scan_int returns the literal, scan appends it
ScanIntEnd ==
    /\ pc = "scan_int" /\ ~isdigit(char)
    /\ tokens' = Append(tokens, Token(TK_INTLITERAL, "", IntOf(lexeme), lexpos))
    /\ lexeme' = <<>>
    /\ pc' = "scan_token"
    /\ UNCHANGED <<pos, char, eot, lexpos, error>>
    /\ ScanIdle

\* scan_token, c.isalpha(): scan_chars takes the first letter
ScanCharsStart ==
    /\ pc = "scan_token" /\ ~eot /\ ~isspace(char) /\ ~isdigit(char) /\ isalpha(char)
    /\ lexpos' = char_pos
    /\ lexeme' = <<char>>
    /\ char_take
    /\ pc' = "scan_chars"
    /\ UNCHANGED <<tokens, error>>
    /\ ScanIdle

\* scan_chars: one turn of its loop
ScanCharsLoop ==
    /\ pc = "scan_chars" /\ isalnum(char)
    /\ lexeme' = Append(lexeme, char)
    /\ char_take
    /\ UNCHANGED <<pc, lexpos, tokens, error>>
    /\ ScanIdle

\* scan_chars returns a keyword or an identifier, scan appends it
ScanCharsEnd ==
    /\ pc = "scan_chars" /\ ~isalnum(char)
    /\ tokens' = Append(tokens, KeywordToken(Join(lexeme), lexpos))
    /\ lexeme' = <<>>
    /\ pc' = "scan_token"
    /\ UNCHANGED <<pos, char, eot, lexpos, error>>
    /\ ScanIdle

\* scan_token, c in OPER
ScanOperator ==
    /\ pc = "scan_token" /\ ~eot /\ char \in OPER
    /\ tokens' = Append(tokens, Token(TK_OPERATOR, char, 0, char_pos))
    /\ char_take
    /\ UNCHANGED <<pc, lexeme, lexpos, error>>
    /\ ScanIdle

\* scan_token, c == '!': enter skip_comm
ScanComment ==
    /\ pc = "scan_token" /\ ~eot /\ char = "!"
    /\ pc' = "skip_comm"
    /\ UNCHANGED <<pos, char, eot, lexeme, lexpos, tokens, error>>
    /\ ScanIdle

\* skip_comm: one turn of `while self.char_current() != '\n': self.char_take()`.
\* The loop does not test eot. Past the end of the text every turn reads ''
\* and adds one to pos, and no turn leaves the loop, so pos is never read
\* again: the model keeps it within MaxOverrun of the end of the text and
\* then folds it back to the first position past the end.
SkipCommLoop ==
    /\ pc = "skip_comm" /\ char # "\n"
    /\ char' = ReadChar(pos)
    /\ eot' = (eot \/ ReadChar(pos) = "")
    /\ pos' = IF pos >= Len(text) + MaxOverrun THEN Len(text) + 1 ELSE pos + 1
    /\ UNCHANGED <<pc, lexeme, lexpos, tokens, error>>
    /\ ScanIdle

\* skip_comm returns at the newline; scan_token continues its loop
SkipCommEnd ==
    /\ pc = "skip_comm" /\ char = "\n"
    /\ pc' = "scan_token"
    /\ UNCHANGED <<pos, char, eot, lexeme, lexpos, tokens, error>>
    /\ ScanIdle

\* scan_token, ';' '~' '(' ')'
ScanPunct ==
    /\ pc = "scan_token" /\ ~eot /\ char \in {";", "~", "(", ")"}
    /\ tokens' = Append(tokens, Token(PunctType(char), "", 0, char_pos))
    /\ char_take
    /\ UNCHANGED <<pc, lexeme, lexpos, error>>
    /\ ScanIdle

\* ScanColon with BECOMES placed where the cursor stands, on the '='
ScanColon_at_cursor ==
    /\ pc = "scan_token" /\ ~eot /\ char = ":"
    /\ IF ReadChar(pos) = "="
       THEN /\ tokens' = Append(tokens, Token(TK_BECOMES, "", 0, char_pos + 1))
            /\ char' = ReadChar(pos + 1)
            /\ eot' = (ReadChar(pos + 1) = "")
            /\ pos' = pos + 2
       ELSE /\ tokens' = Append(tokens, Token(TK_COLON, "", 0, char_pos))
            /\ char_take
    /\ UNCHANGED <<pc, lexeme, lexpos, error>>
    /\ ScanIdle

\* scan_token, ':' alone is COLON, ':' followed by '=' is BECOMES; the two
\* char_take calls are one step
ScanColon ==
    /\ pc = "scan_token" /\ ~eot /\ char = ":"
    /\ IF ReadChar(pos) = "="
       THEN /\ tokens' = Append(tokens, Token(TK_BECOMES, "", 0, (char_pos + 1) - 1))
            /\ char' = ReadChar(pos + 1)
            /\ eot' = (ReadChar(pos + 1) = "")
            /\ pos' = pos + 2
       ELSE /\ tokens' = Append(tokens, Token(TK_COLON, "", 0, char_pos))
            /\ char_take
    /\ UNCHANGED <<pc, lexeme, lexpos, error>>
    /\ ScanIdle

\* scan_token, any other character: raise ScannerError
ScanRaise ==
    /\ pc = "scan_token" /\ ~eot
    /\ ~isspace(char) /\ ~isalnum(char)
    /\ char \notin OPER \cup {"!", ";", ":", "~", "(", ")"}
    /\ error' = ScannerError(char_pos, char)
    /\ pc' = "scan_error"
    /\ UNCHANGED <<pos, char, eot, lexeme, lexpos, tokens>>
    /\ ScanIdle

\* scan_token at the end of the text returns EOT; scan appends it and returns
ScanEOT ==
    /\ pc = "scan_token" /\ eot
    /\ tokens' = Append(tokens, Token(TK_EOT, "", 0, char_pos))
    /\ pc' = "parse"
    /\ UNCHANGED <<pos, char, eot, lexeme, lexpos, error>>
    /\ ScanIdle

ScanStep ==
    \/ ScanSpace \/ ScanIntStart \/ ScanIntLoop \/ ScanIntEnd
    \/ ScanCharsStart \/ ScanCharsLoop \/ ScanCharsEnd
    \/ ScanOperator \/ ScanComment \/ SkipCommLoop \/ SkipCommEnd
    \/ ScanPunct \/ ScanColon \/ ScanRaise \/ ScanEOT

-----------------------------------------------------------------------------
(* AST nodes, as parser.py constructs them and codegen.py reads them *)

NoTree == [node |-> "None"]

Vname(identifier) == [node |-> "Vname", identifier |-> identifier]
TypeDenoter(val, num) == [node |-> "TypeDenoter", identifier |-> val, num |-> num]
IntegerExpression(value) == [node |-> "IntegerExpression", value |-> value]
VnameExpression(variable) == [node |-> "VnameExpression", variable |-> variable]
BinaryExpression(expr1, oper, expr2) ==
    [node |-> "BinaryExpression", expr1 |-> expr1, oper |-> oper, expr2 |-> expr2]
AssignCommand(variable, expression) ==
    [node |-> "AssignCommand", variable |-> variable, expression |-> expression]
CallCommand(identifier, expression) ==
    [node |-> "CallCommand", identifier |-> identifier, expression |-> expression]
SequentialCommand(command1, command2) ==
    [node |-> "SequentialCommand", command1 |-> command1, command2 |-> command2]
IfCommand(expression, command1, command2) ==
    [node |-> "IfCommand", expression |-> expression, command1 |-> command1, command2 |-> command2]
WhileCommand(expression, command) ==
    [node |-> "WhileCommand", expression |-> expression, command |-> command]
LetCommand(declaration, command) ==
    [node |-> "LetCommand", declaration |-> declaration, command |-> command]
ConstDeclaration(identifier, expression) ==
    [node |-> "ConstDeclaration", identifier |-> identifier, expression |-> expression]
VarDeclaration(identifier, type_denoter) ==
    [node |-> "VarDeclaration", identifier |-> identifier, type_denoter |-> type_denoter]
SequentialDeclaration(decl1, decl2) ==
    [node |-> "SequentialDeclaration", decl1 |-> decl1, decl2 |-> decl2]
Program(command) == [node |-> "Program", command |-> command]

-----------------------------------------------------------------------------
(* Parser.  Every parse_* operator takes the token list and the cursor     *)
(* (curindex, 0-based as in the source) and yields the tree with the       *)
(* cursor after it, or the ParserError raised, with the cursor where it    *)
(* was raised.                                                             *)

POk(t, i) == [ok |-> TRUE, tree |-> t, idx |-> i, err |-> NoError]
PErr(tok, site, i) ==
    [ok |-> FALSE, tree |-> NoTree, idx |-> i, err |-> ParserError(tok.pos, tok.type, site)]

\* Exception propagation: the rest of a routine, K, runs on the result r of
\* a call only when the call returned; a raised error passes through
AndThen(r, K(_)) == IF r.ok THEN K(r) ELSE r

\* Parser.token_current: curtoken = tokens[curindex]
token_current(toks, i) == toks[i + 1]

\* Parser.token_accept_any: the cursor does not move past EOT
token_accept_any(toks, i) ==
    IF token_current(toks, i).type # TK_EOT THEN i + 1 ELSE i

\* Parser.token_accept
token_accept(toks, i, type) ==
    IF token_current(toks, i).type # type
    THEN PErr(token_current(toks, i), "token_accept", i)
    ELSE POk(NoTree, token_accept_any(toks, i))

RECURSIVE parse_command(_, _), parse_begin(_, _), parse_begin_loop(_, _, _),
          parse_identifier(_, _), parse_let(_, _), parse_let_loop(_, _, _),
          parse_declaration(_, _), parse_const(_, _), parse_var(_, _),
          parse_expr(_, _), parse_expr_loop(_, _, _),
          parse_secexpr(_, _), parse_secexpr_loop(_, _, _),
          parse_tertexpr(_, _), parse_tertexpr_loop(_, _, _),
          parse_priexpr(_, _), parse_while(_, _), parse_if(_, _)

\* Parser.parse_priexpr
parse_priexpr(toks, i) ==
    LET token == token_current(toks, i) IN
    IF token.type = TK_INTLITERAL
    THEN POk(IntegerExpression(token.num), token_accept_any(toks, i))
    ELSE IF token.type = TK_LPAREN
    THEN AndThen(parse_expr(toks, token_accept_any(toks, i)), LAMBDA e1 :
         AndThen(token_accept(toks, e1.idx, TK_RPAREN), LAMBDA a :
         POk(e1.tree, a.idx)))
    ELSE IF token.type = TK_IDENTIFIER
    THEN POk(VnameExpression(Vname(token.val)), token_accept_any(toks, i))
    ELSE PErr(token, "parse_priexpr", i)

\* the while loop of parse_tertexpr, e1 the tree built so far
parse_tertexpr_loop(toks, e1, i) ==
    LET token == token_current(toks, i) IN
    IF token.type = TK_OPERATOR /\ token.val \in {"*", "/", "\\"}
    THEN AndThen(parse_priexpr(toks, token_accept_any(toks, i)), LAMBDA e2 :
         parse_tertexpr_loop(toks, BinaryExpression(e1, token.val, e2.tree), e2.idx))
    ELSE POk(e1, i)

\* Parser.parse_tertexpr
parse_tertexpr(toks, i) ==
    AndThen(parse_priexpr(toks, i), LAMBDA e1 :
    parse_tertexpr_loop(toks, e1.tree, e1.idx))

\* parse_secexpr's loop as a recursion on the right operand
parse_secexpr_loop_right(toks, e1, i) ==
    LET token == token_current(toks, i) IN
    IF token.type = TK_OPERATOR /\ token.val \in {"+", "-"}
    THEN AndThen(parse_secexpr(toks, token_accept_any(toks, i)), LAMBDA e2 :
         POk(BinaryExpression(e1, token.val, e2.tree), e2.idx))
    ELSE POk(e1, i)

\* the while loop of parse_secexpr
parse_secexpr_loop(toks, e1, i) ==
    LET token == token_current(toks, i) IN
    IF token.type = TK_OPERATOR /\ token.val \in {"+", "-"}
    THEN AndThen(parse_tertexpr(toks, token_accept_any(toks, i)), LAMBDA e2 :
         parse_secexpr_loop(toks, BinaryExpression(e1, token.val, e2.tree), e2.idx))
    ELSE POk(e1, i)

\* Parser.parse_secexpr
parse_secexpr(toks, i) ==
    AndThen(parse_tertexpr(toks, i), LAMBDA e1 :
    parse_secexpr_loop(toks, e1.tree, e1.idx))

\* the while loop of parse_expr
parse_expr_loop(toks, e1, i) ==
    LET token == token_current(toks, i) IN
    IF token.type = TK_OPERATOR /\ token.val \in {">", "<", "="}
    THEN AndThen(parse_secexpr(toks, token_accept_any(toks, i)), LAMBDA e2 :
         parse_expr_loop(toks, BinaryExpression(e1, token.val, e2.tree), e2.idx))
    ELSE POk(e1, i)

\* Parser.parse_expr
parse_expr(toks, i) ==
    AndThen(parse_secexpr(toks, i), LAMBDA e1 :
    parse_expr_loop(toks, e1.tree, e1.idx))

\* Parser.parse_identifier; i1 is the cursor after the identifier
parse_identifier(toks, i) ==
    LET vname == Vname(token_current(toks, i).val)
        i1 == token_accept_any(toks, i)
        token == token_current(toks, i1) IN
    IF token.type = TK_BECOMES
    THEN AndThen(parse_expr(toks, token_accept_any(toks, i1)), LAMBDA e2 :
         POk(AssignCommand(vname, e2.tree), e2.idx))
    ELSE IF token.type = TK_LPAREN
    THEN AndThen(parse_expr(toks, token_accept_any(toks, i1)), LAMBDA e2 :
         AndThen(token_accept(toks, e2.idx, TK_RPAREN), LAMBDA a :
         POk(CallCommand(vname.identifier, e2.tree), a.idx)))
    ELSE PErr(token, "parse_identifier", i1)

\* parse_begin's loop with the operands of SequentialCommand exchanged
parse_begin_loop_swapped(toks, comm, i) ==
    IF token_current(toks, i).type = TK_SEMICOLON
    THEN IF token_current(toks, token_accept_any(toks, i)).type = TK_END
         THEN POk(comm, token_accept_any(toks, i))
         ELSE AndThen(parse_command(toks, token_accept_any(toks, i)), LAMBDA comm2 :
              parse_begin_loop(toks, SequentialCommand(comm2.tree, comm), comm2.idx))
    ELSE POk(comm, i)

\* the while loop of parse_begin, comm the sequence built so far
parse_begin_loop(toks, comm, i) ==
    IF token_current(toks, i).type = TK_SEMICOLON
    THEN IF token_current(toks, token_accept_any(toks, i)).type = TK_END
         THEN POk(comm, token_accept_any(toks, i))
         ELSE AndThen(parse_command(toks, token_accept_any(toks, i)), LAMBDA comm2 :
              parse_begin_loop(toks, SequentialCommand(comm, comm2.tree), comm2.idx))
    ELSE POk(comm, i)

\* Parser.parse_begin
parse_begin(toks, i) ==
    AndThen(parse_command(toks, token_accept_any(toks, i)), LAMBDA c1 :
    AndThen(parse_begin_loop(toks, c1.tree, c1.idx), LAMBDA comm :
    AndThen(token_accept(toks, comm.idx, TK_END), LAMBDA a :
    POk(comm.tree, a.idx))))

\* Parser.parse_var: the token after ':' becomes the type denoter, whatever
\* its kind, and is left for the caller to take
parse_var(toks, i) ==
    LET token == token_current(toks, i) IN
    IF token.type = TK_IDENTIFIER
    THEN AndThen(token_accept(toks, token_accept_any(toks, i), TK_COLON), LAMBDA a :
         POk(VarDeclaration(token.val,
                            TypeDenoter(token_current(toks, a.idx).val,
                                        token_current(toks, a.idx).num)),
             a.idx))
    ELSE PErr(token, "parse_var", i)

\* Parser.parse_const
parse_const(toks, i) ==
    LET token == token_current(toks, i) IN
    IF token.type = TK_IDENTIFIER
    THEN AndThen(token_accept(toks, token_accept_any(toks, i), TK_IS), LAMBDA a :
         AndThen(parse_expr(toks, a.idx), LAMBDA exp :
         POk(ConstDeclaration(token.val, exp.tree), exp.idx)))
    ELSE PErr(token, "parse_const", i)

\* Parser.parse_declaration
parse_declaration(toks, i) ==
    LET token == token_current(toks, i) IN
    IF token.type = TK_VAR
    THEN AndThen(parse_var(toks, token_accept_any(toks, i)), LAMBDA decl :
         POk(decl.tree, token_accept_any(toks, decl.idx)))
    ELSE IF token.type = TK_CONST
    THEN parse_const(toks, token_accept_any(toks, i))
    ELSE PErr(token, "parse_declaration", i)

\* the while loop of parse_let, decl the declarations built so far
parse_let_loop(toks, decl, i) ==
    IF token_current(toks, i).type = TK_SEMICOLON
    THEN IF token_current(toks, token_accept_any(toks, i)).type = TK_IN
         THEN POk(decl, token_accept_any(toks, i))
         ELSE AndThen(parse_declaration(toks, token_accept_any(toks, i)), LAMBDA decl2 :
              parse_let_loop(toks, SequentialDeclaration(decl, decl2.tree), decl2.idx))
    ELSE POk(decl, i)

\* Parser.parse_let
parse_let(toks, i) ==
    AndThen(parse_declaration(toks, token_accept_any(toks, i)), LAMBDA d1 :
    AndThen(parse_let_loop(toks, d1.tree, d1.idx), LAMBDA decl :
    AndThen(token_accept(toks, decl.idx, TK_IN), LAMBDA a :
    AndThen(parse_command(toks, a.idx), LAMBDA comm :
    POk(LetCommand(decl.tree, comm.tree), comm.idx)))))

\* Parser.parse_command, the TK_WHILE branch
parse_while(toks, i) ==
    AndThen(token_accept(toks, i, TK_WHILE), LAMBDA a1 :
    AndThen(parse_expr(toks, a1.idx), LAMBDA exp :
    AndThen(token_accept(toks, exp.idx, TK_DO), LAMBDA a2 :
    AndThen(parse_command(toks, a2.idx), LAMBDA comm :
    POk(WhileCommand(exp.tree, comm.tree), comm.idx)))))

\* Parser.parse_command, the TK_IF branch: the token after the condition and
\* the token after the first command are taken by token_accept_any, whatever
\* they are; token_accept(TK_ELSE) then checks the token after that one
parse_if(toks, i) ==
    AndThen(token_accept(toks, i, TK_IF), LAMBDA a1 :
    AndThen(parse_expr(toks, a1.idx), LAMBDA exp :
    AndThen(parse_command(toks, token_accept_any(toks, exp.idx)), LAMBDA comm1 :
    AndThen(token_accept(toks, token_accept_any(toks, comm1.idx), TK_ELSE), LAMBDA a2 :
    AndThen(parse_command(toks, a2.idx), LAMBDA comm2 :
    POk(IfCommand(exp.tree, comm1.tree, comm2.tree), comm2.idx))))))

\* Parser.parse_command: dispatch on the current token's kind
parse_command(toks, i) ==
    LET token == token_current(toks, i) IN
    IF token.type = TK_LET THEN parse_let(toks, i)
    ELSE IF token.type = TK_IDENTIFIER THEN parse_identifier(toks, i)
    ELSE IF token.type = TK_BEGIN THEN parse_begin(toks, i)
    ELSE IF token.type = TK_WHILE THEN parse_while(toks, i)
    ELSE IF token.type = TK_IF THEN parse_if(toks, i)
    ELSE PErr(token, "parse_command", i)

\* parse_program without the EOT after the command
parse_program_no_eot(toks, i) ==
    AndThen(parse_command(toks, i), LAMBDA e1 :
    POk(Program(e1.tree), e1.idx))

\* Parser.parse_program: a command, then EOT
parse_program(toks, i) ==
    AndThen(parse_command(toks, i), LAMBDA e1 :
    AndThen(token_accept(toks, e1.idx, TK_EOT), LAMBDA a :
    POk(Program(e1.tree), a.idx)))

\* Parser.parse, on a parser constructed with curindex = 0
parse(toks) == parse_program(toks, 0)

-----------------------------------------------------------------------------
(* CodeGen.  An instruction is byteplay's pair (opcode, argument); the     *)
(* argument is split, like Token.val, in a string and an integer.  A       *)
(* Label() object is its identity, a number no earlier Label() call got;   *)
(* the pair (label, None) that places it is the instruction LABEL.         *)
(* Every gen_* operator takes the node, self.code and the number of labels *)
(* made so far, and yields both after it, or the exception raised.         *)

Instr(op, name, num) == [op |-> op, name |-> name, num |-> num]

GOk(c, n) == [ok |-> TRUE, code |-> c, nlabel |-> n, err |-> "none", node |-> ""]
\* raise CodeGenError(node)
CodeGenError(node, c, n) ==
    [ok |-> FALSE, code |-> c, nlabel |-> n, err |-> "CodeGenError", node |-> node]
\* Python's own error for reading an attribute the object does not have
AttributeError(node, c, n) ==
    [ok |-> FALSE, code |-> c, nlabel |-> n, err |-> "AttributeError", node |-> node]

hasattr(obj, name) == name \in DOMAIN obj

RECURSIVE gen_command(_, _, _), gen_expr(_, _, _), gen_binaryexpr(_, _, _),
          gen_ifcommand(_, _, _), gen_whilecommand(_, _, _),
          gen_declaration(_, _, _)

\* the operator table of gen_binaryexpr
BinaryInstr(op) ==
    CASE op = "+"  -> Instr("BINARY_ADD", "", 0)
      [] op = "-"  -> Instr("BINARY_SUBTRACT", "", 0)
      [] op = "*"  -> Instr("BINARY_MULTIPLY", "", 0)
      [] op = "/"  -> Instr("BINARY_DIVIDE", "", 0)
      [] op = ">"  -> Instr("COMPARE_OP", ">", 0)
      [] op = "<"  -> Instr("COMPARE_OP", "<", 0)
      [] op = "="  -> Instr("COMPARE_OP", "==", 0)
      [] op = "\\" -> Instr("BINARY_MODULO", "", 0)

\* CodeGen.gen_binaryexpr
gen_binaryexpr(t, c, n) ==
    AndThen(gen_expr(t.expr1, c, n), LAMBDA r1 :
    AndThen(gen_expr(t.expr2, r1.code, r1.nlabel), LAMBDA r2 :
    IF t.oper \in {"+", "-", "*", "/", ">", "<", "=", "\\"}
    THEN GOk(Append(r2.code, BinaryInstr(t.oper)), r2.nlabel)
    ELSE CodeGenError("operator", r2.code, r2.nlabel)))

\* CodeGen.gen_expr
gen_expr(t, c, n) ==
    IF t.node = "IntegerExpression"
    THEN GOk(Append(c, Instr("LOAD_CONST", "", t.value)), n)
    ELSE IF t.node = "VnameExpression"
    THEN GOk(Append(c, Instr("LOAD_FAST", t.variable.identifier, 0)), n)
    ELSE IF t.node = "BinaryExpression"
    THEN gen_binaryexpr(t, c, n)
    ELSE CodeGenError(t.node, c, n)

\* CodeGen.gen_assigncommand
gen_assigncommand(t, c, n) ==
    AndThen(gen_expr(t.expression, c, n), LAMBDA r :
    GOk(Append(r.code, Instr("STORE_FAST", t.variable.identifier, 0)), r.nlabel))

\* gen_callcommand with putint lowering any expression through gen_expr
gen_callcommand_anyexpr(t, c, n) ==
    IF t.identifier = "getint"
    THEN IF hasattr(t.expression, "variable")
         THEN GOk(c \o <<Instr("LOAD_GLOBAL", "input", 0), Instr("CALL_FUNCTION", "", 0),
                         Instr("STORE_FAST", t.expression.variable.identifier, 0)>>, n)
         ELSE AttributeError(t.expression.node,
                             c \o <<Instr("LOAD_GLOBAL", "input", 0),
                                    Instr("CALL_FUNCTION", "", 0)>>, n)
    ELSE IF t.identifier = "putint"
    THEN AndThen(gen_expr(t.expression, c, n), LAMBDA r :
         GOk(r.code \o <<Instr("PRINT_ITEM", "", 0), Instr("PRINT_NEWLINE", "", 0),
                         Instr("LOAD_CONST", "", 0)>>, r.nlabel))
    ELSE GOk(c, n)

\* CodeGen.gen_callcommand: getint, putint, and no branch for any other name
gen_callcommand(t, c, n) ==
    IF t.identifier = "getint"
    THEN IF hasattr(t.expression, "variable")
         THEN GOk(c \o <<Instr("LOAD_GLOBAL", "input", 0), Instr("CALL_FUNCTION", "", 0),
                         Instr("STORE_FAST", t.expression.variable.identifier, 0)>>, n)
         ELSE AttributeError(t.expression.node,
                             c \o <<Instr("LOAD_GLOBAL", "input", 0),
                                    Instr("CALL_FUNCTION", "", 0)>>, n)
    ELSE IF t.identifier = "putint"
    THEN IF t.expression.node = "VnameExpression"
         THEN GOk(c \o <<Instr("LOAD_FAST", t.expression.variable.identifier, 0),
                         Instr("PRINT_ITEM", "", 0), Instr("PRINT_NEWLINE", "", 0),
                         Instr("LOAD_CONST", "", 0)>>, n)
         ELSE IF t.expression.node = "IntegerExpression"
         THEN GOk(c \o <<Instr("LOAD_CONST", "", t.expression.value),
                         Instr("PRINT_ITEM", "", 0), Instr("PRINT_NEWLINE", "", 0),
                         Instr("LOAD_CONST", "", 0)>>, n)
         ELSE CodeGenError(t.expression.node, c, n)
    ELSE GOk(c, n)

\* gen_ifcommand with labels that are not fresh: the branches number their
\* labels from n again
gen_ifcommand_reuse(t, c, n) ==
    AndThen(gen_expr(t.expression, c, n), LAMBDA r0 :
    AndThen(gen_command(t.command1,
                        Append(r0.code, Instr("POP_JUMP_IF_FALSE", "", n + 1)),
                        n), LAMBDA r1 :
    AndThen(gen_command(t.command2,
                        r1.code \o <<Instr("JUMP_ABSOLUTE", "", n + 2),
                                     Instr("LABEL", "", n + 1)>>,
                        n), LAMBDA r2 :
    GOk(Append(r2.code, Instr("LABEL", "", n + 2)), n + 3))))

\* CodeGen.gen_ifcommand: l1, l2, l3 = Label(), Label(), Label() are the
\* labels n + 1, n + 2, n + 3
gen_ifcommand(t, c, n) ==
    AndThen(gen_expr(t.expression, c, n + 3), LAMBDA r0 :
    AndThen(gen_command(t.command1,
                        Append(r0.code, Instr("POP_JUMP_IF_FALSE", "", n + 1)),
                        r0.nlabel), LAMBDA r1 :
    AndThen(gen_command(t.command2,
                        r1.code \o <<Instr("JUMP_ABSOLUTE", "", n + 2),
                                     Instr("LABEL", "", n + 1)>>,
                        r1.nlabel), LAMBDA r2 :
    GOk(Append(r2.code, Instr("LABEL", "", n + 2)), r2.nlabel))))

\* gen_whilecommand with l1 placed after the condition's code: the condition
\* is evaluated once
gen_whilecommand_cond_once(t, c, n) ==
    AndThen(gen_expr(t.expression, c, n + 3), LAMBDA r0 :
    AndThen(gen_command(t.command,
                        r0.code \o <<Instr("LABEL", "", n + 1),
                                     Instr("POP_JUMP_IF_FALSE", "", n + 2)>>,
                        r0.nlabel), LAMBDA r1 :
    GOk(r1.code \o <<Instr("JUMP_ABSOLUTE", "", n + 1), Instr("LABEL", "", n + 2)>>,
        r1.nlabel)))

\* CodeGen.gen_whilecommand: l1, l2, l3 = Label(), Label(), Label() are the
\* labels n + 1, n + 2, n + 3
gen_whilecommand(t, c, n) ==
    AndThen(gen_expr(t.expression, Append(c, Instr("LABEL", "", n + 1)), n + 3), LAMBDA r0 :
    AndThen(gen_command(t.command,
                        Append(r0.code, Instr("POP_JUMP_IF_FALSE", "", n + 2)),
                        r0.nlabel), LAMBDA r1 :
    GOk(r1.code \o <<Instr("JUMP_ABSOLUTE", "", n + 1), Instr("LABEL", "", n + 2)>>,
        r1.nlabel)))

\* CodeGen.gen_constdecl
gen_constdecl(t, c, n) ==
    AndThen(gen_expr(t.expression, c, n), LAMBDA r :
    GOk(Append(r.code, Instr("STORE_FAST", t.identifier, 0)), r.nlabel))

\* CodeGen.gen_vardecl: pass
gen_vardecl(t, c, n) == GOk(c, n)

\* CodeGen.gen_declaration
gen_declaration(t, c, n) ==
    IF t.node = "ConstDeclaration" THEN gen_constdecl(t, c, n)
    ELSE IF t.node = "VarDeclaration" THEN gen_vardecl(t, c, n)
    ELSE IF t.node = "SequentialDeclaration"
    THEN AndThen(gen_declaration(t.decl1, c, n), LAMBDA r1 :
         gen_declaration(t.decl2, r1.code, r1.nlabel))
    ELSE CodeGenError(t.node, c, n)

\* CodeGen.gen_command
gen_command(t, c, n) ==
    IF t.node = "AssignCommand" THEN gen_assigncommand(t, c, n)
    ELSE IF t.node = "CallCommand" THEN gen_callcommand(t, c, n)
    ELSE IF t.node = "SequentialCommand"
    THEN AndThen(gen_command(t.command1, c, n), LAMBDA r1 :
         gen_command(t.command2, r1.code, r1.nlabel))
    ELSE IF t.node = "IfCommand" THEN gen_ifcommand(t, c, n)
    ELSE IF t.node = "WhileCommand" THEN gen_whilecommand(t, c, n)
    ELSE IF t.node = "LetCommand"
    THEN AndThen(gen_declaration(t.declaration, c, n), LAMBDA r1 :
         gen_command(t.command, r1.code, r1.nlabel))
    ELSE CodeGenError(t.node, c, n)

\* CodeGen.generate, on a generator constructed with code = []: the command's
\* code, then RETURN_VALUE
generate(t) ==
    IF t.node # "Program" THEN CodeGenError(t.node, <<>>, 0)
    ELSE AndThen(gen_command(t.command, <<>>, 0), LAMBDA r :
         GOk(Append(r.code, Instr("RETURN_VALUE", "", 0)), r.nlabel))

-----------------------------------------------------------------------------
(* Source texts of the pipeline *)

\* if 1=1 then putint(1) else putint(0)
IfText ==
    <<"i", "f", " ", "1", "=", "1", " ", "t", "h", "e", "n", " ", "p", "u",
      "t", "i", "n", "t", "(", "1", ")", " ", "e", "l", "s", "e", " ", "p",
      "u", "t", "i", "n", "t", "(", "0", ")">>

\* if 1=1 then putint(1); else putint(0)
IfSemiText ==
    <<"i", "f", " ", "1", "=", "1", " ", "t", "h", "e", "n", " ", "p", "u",
      "t", "i", "n", "t", "(", "1", ")", ";", " ", "e", "l", "s", "e", " ",
      "p", "u", "t", "i", "n", "t", "(", "0", ")">>

\* begin:=end
BeginBecomesText ==
    <<"b", "e", "g", "i", "n", ":", "=", "e", "n", "d">>

\* let var x: Integer in x := 3
LetText ==
    <<"l", "e", "t", " ", "v", "a", "r", " ", "x", ":", " ", "I", "n", "t",
      "e", "g", "e", "r", " ", "i", "n", " ", "x", " ", ":", "=", " ", "3">>

\* putint(1+2)
PutintSumText ==
    <<"p", "u", "t", "i", "n", "t", "(", "1", "+", "2", ")">>

\* ! c\nx := 12
CommentLineText ==
    <<"!", " ", "c", "\n", "x", " ", ":", "=", " ", "1", "2">>

\* x := 1 ! c
CommentAtEndText ==
    <<"x", " ", ":", "=", " ", "1", " ", "!", " ", "c">>

\* while x > 0 do begin getint(x); foo(x) end
WhileText ==
    <<"w", "h", "i", "l", "e", " ", "x", " ", ">", " ", "0", " ", "d", "o",
      " ", "b", "e", "g", "i", "n", " ", "g", "e", "t", "i", "n", "t", "(",
      "x", ")", ";", " ", "f", "o", "o", "(", "x", ")", " ", "e", "n", "d">>

\* let const c ~ 7 in putint(c)
TildeText ==
    <<"l", "e", "t", " ", "c", "o", "n", "s", "t", " ", "c", " ", "~", " ",
      "7", " ", "i", "n", " ", "p", "u", "t", "i", "n", "t", "(", "c", ")">>

ProgramTexts ==
    {IfText, IfSemiText, BeginBecomesText, LetText, PutintSumText,
     CommentLineText, CommentAtEndText, WhileText, TildeText}

Alphabet == {"a", "1", " ", "\n", "!", ":", "=", ";", "&"}

\* every text of at most MaxTextLen characters of Alphabet
ShortTexts == UNION {[1..n -> Alphabet] : n \in 0..MaxTextLen}

Texts == ShortTexts \cup ProgramTexts

-----------------------------------------------------------------------------
(* The pipeline: Scanner(text).scan(), Parser(tokens).parse(),             *)
(* CodeGen(tree).generate()                                                *)

\* Scanner.__init__ (its char_take reads the first character) and the
\* `self.tokens = []` of scan
Init ==
    /\ text \in Texts
    /\ pc = "scan_token"
    /\ pos = 1
    /\ char = (IF text = <<>> THEN "" ELSE text[1])
    /\ eot = (text = <<>>)
    /\ lexeme = <<>>
    /\ lexpos = 0
    /\ tokens = <<>>
    /\ error = NoError
    /\ curindex = 0
    /\ curtoken = NoToken
    /\ tree = NoTree
    /\ code = <<>>

\* Parser(tokens).parse(): the Program, or the ParserError raised
Parse ==
    /\ pc = "parse"
    /\ LET r == parse(tokens) IN
       /\ curindex' = r.idx
       /\ curtoken' = token_current(tokens, r.idx)
       /\ tree' = r.tree
       /\ error' = r.err
       /\ pc' = IF r.ok THEN "generate" ELSE "parse_error"
    /\ UNCHANGED <<text, pos, char, eot, lexeme, lexpos, tokens, code>>

\* CodeGen(tree).generate(): the instruction list, or the exception raised
\* (and then no instruction list)
Generate ==
    /\ pc = "generate"
    /\ LET g == generate(tree) IN
       /\ code' = IF g.ok THEN g.code ELSE <<>>
       /\ error' = [kind |-> g.err, pos |-> 0, type |-> 0, char |-> "", site |-> g.node]
       /\ pc' = IF g.ok THEN "done" ELSE "gen_error"
    /\ UNCHANGED <<text, pos, char, eot, lexeme, lexpos, tokens, curindex, curtoken, tree>>

Next == ScanStep \/ Parse \/ Generate

Spec == Init /\ [][Next]_vars

\* The interpreter keeps running the scanner while the scanner has a step to take
FairSpec == Init /\ [][Next]_vars /\ WF_vars(ScanStep)

-----------------------------------------------------------------------------
(* Token lists a Parser is constructed on.  A shape is a token without its *)
(* position, w the length of its text; Layout places the shapes as the     *)
(* scanner does for their texts written with one space between them.       *)

Shape(type, val, num, w) == [type |-> type, val |-> val, num |-> num, w |-> w]

IdShape(name) == Shape(TK_IDENTIFIER, name, 0, 1)
IntShape(k) == Shape(TK_INTLITERAL, "", k, 1)
OpShape(o) == Shape(TK_OPERATOR, o, 0, 1)
KwShape(type, w) == Shape(type, "", 0, w)

BeginShape == KwShape(TK_BEGIN, 5)
EndShape == KwShape(TK_END, 3)
SemiShape == KwShape(TK_SEMICOLON, 1)
BecomesShape == KwShape(TK_BECOMES, 2)
LParenShape == KwShape(TK_LPAREN, 1)
RParenShape == KwShape(TK_RPAREN, 1)

KeywordShapes ==
    {BeginShape, KwShape(TK_CONST, 5), KwShape(TK_DO, 2), KwShape(TK_ELSE, 4),
     EndShape, KwShape(TK_IF, 2), KwShape(TK_IN, 2), KwShape(TK_LET, 3),
     KwShape(TK_THEN, 4), KwShape(TK_VAR, 3), KwShape(TK_WHILE, 5)}

PunctShapes ==
    {SemiShape, KwShape(TK_COLON, 1), BecomesShape, KwShape(TK_IS, 1),
     LParenShape, RParenShape}

AllShapes ==
    {IdShape("a"), IntShape(1), OpShape("+"), OpShape("<")}
        \cup KeywordShapes \cup PunctShapes

\* the tokens of the shapes from offset p on, then EOT at the end of the text
RECURSIVE Layout(_, _)
Layout(shapes, p) ==
    IF shapes = <<>> THEN <<Token(TK_EOT, "", 0, p)>>
    ELSE LET h == Head(shapes) IN
         <<Token(h.type, h.val, h.num, p)>>
             \o Layout(Tail(shapes), IF Len(shapes) = 1 THEN p + h.w ELSE p + h.w + 1)

MkTokens(shapes) == Layout(shapes, 0)

\* every list of at most MaxTokens tokens
ArbShapeLists == UNION {[1..n -> AllShapes] : n \in 0..MaxTokens}

\* the k-th operand of an enumerated expression is the identifier Names[k]
Names == <<"a", "b", "c", "d", "e", "f", "g", "h">>

\* x1 o1 x2 ... o(n-1) xn, with the operands lo..hi in parentheses when lo < hi
RECURSIVE ChainShapes(_, _, _, _)
ChainShapes(ops, k, lo, hi) ==
    LET operand == (IF k = lo /\ lo < hi THEN <<LParenShape>> ELSE <<>>)
                   \o <<IdShape(Names[k])>>
                   \o (IF k = hi /\ lo < hi THEN <<RParenShape>> ELSE <<>>) IN
    IF k > Len(ops) THEN operand
    ELSE operand \o <<OpShape(ops[k])>> \o ChainShapes(ops, k + 1, lo, hi)

\* `x := <expression>` for every choice of the operators and of the
\* parenthesised operands
ExprShapeLists ==
    {<<IdShape("x"), BecomesShape>> \o ChainShapes(ops, 1, lo, hi) :
        <<ops, lo, hi>> \in
            {<<o, l, h>> \in (UNION {[1..n -> OPER] : n \in 0..(MaxOperands - 1)})
                              \X (1..MaxOperands) \X (1..MaxOperands) :
                /\ l <= h /\ h <= Len(o) + 1
                /\ (l = h => l = 1)}}

\* the command the k-th item of an enumerated block stands for: Names[k] := k
CmdShapes(k) == <<IdShape(Names[k]), BecomesShape, IntShape(k)>>

RECURSIVE BlockShapes(_, _)
BlockShapes(items, k) ==
    IF k > Len(items) THEN <<>>
    ELSE (CASE items[k] = "c" -> CmdShapes(k)
            [] items[k] = ";" -> <<SemiShape>>
            [] items[k] = "e" -> <<EndShape>>)
         \o BlockShapes(items, k + 1)

\* `begin` followed by every list of at most MaxBlockItems commands,
\* semicolons and ends
BlockShapeLists ==
    {<<BeginShape>> \o BlockShapes(items, 1) :
        items \in UNION {[1..n -> {"c", ";", "e"}] : n \in 0..MaxBlockItems}}

\* `let var v : T in x := 1`, `let var v : T ; in x := 1` and
\* `let const c ~ 1 ; var v : T in x := 1`, T any token or none
DeclShapeLists ==
    LET VarShapes == <<KwShape(TK_VAR, 3), IdShape("v"), KwShape(TK_COLON, 1)>>
        Body == <<KwShape(TK_IN, 2), IdShape("x"), BecomesShape, IntShape(1)>>
        Const == <<KwShape(TK_CONST, 5), IdShape("c"), KwShape(TK_IS, 1), IntShape(1), SemiShape>>
        Types == {<<t>> : t \in AllShapes \cup {Shape(TK_IDENTIFIER, "Integer", 0, 7)}}
                     \cup {<<>>} IN
    UNION {{<<KwShape(TK_LET, 3)>> \o VarShapes \o T \o Body,
            <<KwShape(TK_LET, 3)>> \o VarShapes \o T \o <<SemiShape>> \o Body,
            <<KwShape(TK_LET, 3)>> \o Const \o VarShapes \o T \o Body} : T \in Types}

\* `a := 1` followed by one more token of any kind, or by `b := 2`
LeftoverShapeLists ==
    {CmdShapes(1) \o <<t>> : t \in AllShapes} \cup {CmdShapes(1) \o CmdShapes(2)}

TokenLists ==
    {MkTokens(sh) : sh \in ArbShapeLists \cup ExprShapeLists
                            \cup BlockShapeLists \cup DeclShapeLists
                            \cup LeftoverShapeLists}

\* Parser.__init__ on a token list
InitParse ==
    /\ tokens \in TokenLists
    /\ pc = "parse"
    /\ text = <<>>
    /\ pos = 0
    /\ char = ""
    /\ eot = FALSE
    /\ lexeme = <<>>
    /\ lexpos = 0
    /\ error = NoError
    /\ curindex = 0
    /\ curtoken = tokens[1]
    /\ tree = NoTree
    /\ code = <<>>

NextParse == Parse

ParseSpec == InitParse /\ [][NextParse]_vars

-----------------------------------------------------------------------------
(* The token cursor of a Parser, driven call by call *)

TokenTypes == TK_IDENTIFIER..TK_EOT

\* the token lists the cursor is driven over
CursorLists == {MkTokens(sh) : sh \in ArbShapeLists \cup LeftoverShapeLists}

\* Parser.__init__ on a token list
InitCursor ==
    /\ tokens \in CursorLists
    /\ pc = "cursor"
    /\ text = <<>>
    /\ pos = 0
    /\ char = ""
    /\ eot = FALSE
    /\ lexeme = <<>>
    /\ lexpos = 0
    /\ error = NoError
    /\ curindex = 0
    /\ curtoken = tokens[1]
    /\ tree = NoTree
    /\ code = <<>>

\* token_accept_any at EOT that moves curindex and keeps curtoken
AcceptAny_unguarded ==
    IF curtoken.type # TK_EOT
    THEN /\ curindex' = curindex + 1
         /\ curtoken' = tokens[curindex + 2]
    ELSE /\ curindex' = curindex + 1
         /\ curtoken' = curtoken

\* the body of Parser.token_accept_any
AcceptAny ==
    IF curtoken.type # TK_EOT
    THEN /\ curindex' = curindex + 1
         /\ curtoken' = tokens[curindex + 2]
    ELSE UNCHANGED <<curindex, curtoken>>

\* a call of Parser.token_accept_any
TokenAcceptAny ==
    /\ pc = "cursor"
    /\ AcceptAny
    /\ UNCHANGED <<pc, text, pos, char, eot, lexeme, lexpos, tokens, error, tree, code>>

\* a call of Parser.token_accept(type): ParserError on another kind of token
TokenAccept ==
    /\ pc = "cursor"
    /\ \E type \in TokenTypes :
           IF curtoken.type # type
           THEN /\ error' = ParserError(curtoken.pos, curtoken.type, "token_accept")
                /\ pc' = "parse_error"
                /\ UNCHANGED <<curindex, curtoken>>
           ELSE /\ AcceptAny
                /\ UNCHANGED <<pc, error>>
    /\ UNCHANGED <<text, pos, char, eot, lexeme, lexpos, tokens, tree, code>>

NextCursor == TokenAcceptAny \/ TokenAccept

CursorSpec == InitCursor /\ [][NextCursor]_vars

-----------------------------------------------------------------------------
(* Programs a CodeGen is constructed on *)

VarX == Vname("x")
AssignX1 == AssignCommand(VarX, IntegerExpression(1))
PutintX == CallCommand("putint", VnameExpression(VarX))
CondXLess1 == BinaryExpression(VnameExpression(VarX), "<", IntegerExpression(1))

\* the expressions the parser builds over x and 1 with at most one operator
LeafExprs == {IntegerExpression(1), VnameExpression(VarX)}
Exprs ==
    LeafExprs \cup {BinaryExpression(a, o, b) : a \in LeafExprs, o \in OPER, b \in LeafExprs}

\* the simple commands: assignments, and calls of getint, putint and foo
LeafCmds ==
    {AssignCommand(VarX, e) : e \in Exprs}
        \cup {CallCommand(name, e) : name \in {"getint", "putint", "foo"}, e \in Exprs}

Decls ==
    {VarDeclaration("v", TypeDenoter("Integer", 0)),
     ConstDeclaration("c", IntegerExpression(7)),
     SequentialDeclaration(VarDeclaration("v", TypeDenoter("Integer", 0)),
                           ConstDeclaration("c", CondXLess1))}

\* one compound command around a command of cs; the other command of a
\* sequence or of a conditional is one of sib
Compound(cs, sib) ==
    LET pairs == (cs \X sib) \cup (sib \X cs)
        var == VarDeclaration("v", TypeDenoter("Integer", 0)) IN
    {SequentialCommand(q[1], q[2]) : q \in pairs}
        \cup {IfCommand(CondXLess1, q[1], q[2]) : q \in pairs}
        \cup {WhileCommand(CondXLess1, a) : a \in cs}
        \cup {LetCommand(var, a) : a \in cs}

\* the commands nested at most d deep over x := 1 and putint(x), every
\* sequence and conditional with one side nested at most once
RECURSIVE Nested(_)
Nested(d) ==
    IF d = 0 THEN {AssignX1, PutintX}
    ELSE Nested(d - 1)
             \cup Compound(Nested(d - 1), IF d = 1 THEN Nested(0) ELSE Nested(1))

\* a simple command inside one compound command
Wrapped ==
    UNION {{SequentialCommand(AssignX1, c), SequentialCommand(c, PutintX),
            IfCommand(CondXLess1, c, PutintX), IfCommand(CondXLess1, AssignX1, c),
            WhileCommand(CondXLess1, c)} : c \in LeafCmds}
        \cup {LetCommand(d, c) : d \in Decls, c \in {AssignX1, PutintX}}
        \cup {WhileCommand(e, AssignX1) : e \in Exprs}

Programs == {Program(c) : c \in Nested(MaxDepth) \cup LeafCmds \cup Wrapped}

\* CodeGen.__init__ on a Program
InitGen ==
    /\ tree \in Programs
    /\ pc = "generate"
    /\ text = <<>>
    /\ pos = 0
    /\ char = ""
    /\ eot = FALSE
    /\ lexeme = <<>>
    /\ lexpos = 0
    /\ tokens = <<>>
    /\ error = NoError
    /\ curindex = 0
    /\ curtoken = NoToken
    /\ code = <<>>

NextGen == Generate

GenSpec == InitGen /\ [][NextGen]_vars

-----------------------------------------------------------------------------
(* Properties *)

ScanningPcs == {"scan_token", "scan_int", "scan_chars", "skip_comm"}
TerminalPcs == {"scan_error", "parse_error", "gen_error", "done"}

CountEOT(toks) == Cardinality({i \in DOMAIN toks : toks[i].type = TK_EOT})

\* scan raised ScannerError
ScanRaised == pc = "scan_error" /\ error.kind = "ScannerError"

\* scan returned a token list with exactly one EOT, the last token
ScanReturned ==
    /\ pc \notin ScanningPcs /\ pc # "scan_error"
    /\ tokens # <<>>
    /\ tokens[Len(tokens)].type = TK_EOT
    /\ CountEOT(tokens) = 1

\* C1: for every input text scan terminates: it raises ScannerError or
\* returns a token list in which exactly one token is EOT, the last one.
C1_ScanTerminates == <>(ScanRaised \/ ScanReturned)

\* The returned list is as C1 says whenever scan does return
C1_ReturnedListEndsInOneEOT == (pc \notin ScanningPcs /\ pc # "scan_error") => ScanReturned

\* The code C2 says `if 1=1 then putint(1) else putint(0)` compiles to, L1
\* and L2 the first two labels made
PutintCode(k) ==
    <<Instr("LOAD_CONST", "", k), Instr("PRINT_ITEM", "", 0),
      Instr("PRINT_NEWLINE", "", 0), Instr("LOAD_CONST", "", 0)>>

IfTextCode ==
    <<Instr("LOAD_CONST", "", 1), Instr("LOAD_CONST", "", 1),
      Instr("COMPARE_OP", "==", 0), Instr("POP_JUMP_IF_FALSE", "", 1)>>
        \o PutintCode(1)
        \o <<Instr("JUMP_ABSOLUTE", "", 2), Instr("LABEL", "", 1)>>
        \o PutintCode(0)
        \o <<Instr("LABEL", "", 2), Instr("RETURN_VALUE", "", 0)>>

\* C2: compiling `if 1=1 then putint(1) else putint(0)` succeeds and emits
\* the condition, jump-if-false(L1), the then-branch, jump(L2), label(L1),
\* the else-branch, label(L2) and the terminal return.
C2_IfThenElseCompiles ==
    (text = IfText /\ pc \in TerminalPcs) => (pc = "done" /\ code = IfTextCode)

\* What the parser accepts instead: one more token, of any kind, between the
\* then-branch and `else`
C2_IfWithTokenBeforeElseCompiles ==
    (text = IfSemiText /\ pc \in TerminalPcs) => (pc = "done" /\ code = IfTextCode)

Labels(c) == {i \in DOMAIN c : c[i].op = "LABEL"}
Jumps(c) == {i \in DOMAIN c : c[i].op \in {"JUMP_ABSOLUTE", "POP_JUMP_IF_FALSE"}}

LabelsWellFormed(c) ==
    /\ \A i, j \in Labels(c) : c[i].num = c[j].num => i = j
    /\ \A j \in Jumps(c) : \E i \in Labels(c) : c[i].num = c[j].num
    /\ \A i \in Labels(c) : \E j \in Jumps(c) : c[j].num = c[i].num

\* C3: in the code generate returns, every label is defined exactly once,
\* every jump targets a defined label and every label is the target of a jump.
C3_LabelsWellFormed == pc = "done" => LabelsWellFormed(code)

\* a conditional holding a loop and a second conditional was generated:
\* three pairs of labels
C3_Witness ==
    /\ pc = "done"
    /\ tree.command.node = "IfCommand"
    /\ tree.command.command1.node = "WhileCommand"
    /\ tree.command.command2.node = "IfCommand"
    /\ Cardinality(Labels(code)) = 6

\* C4: a Call command whose name is neither getint nor putint makes generate
\* raise CodeGenError; it is never skipped with a successful result.
C4_UnknownCallRaises ==
    (/\ pc \in TerminalPcs
     /\ tree.command.node = "CallCommand"
     /\ tree.command.identifier \notin {"getint", "putint"})
        => (pc = "gen_error" /\ error.kind = "CodeGenError")

\* C5: getint(e) with e not a bare variable makes generate fail with
\* CodeGenError and no other error; getint(x) emits the read, then
\* store-local(x), and never loads x.
C5_GetintRaisesOnlyCodeGenError ==
    (/\ pc \in TerminalPcs
     /\ tree.command.node = "CallCommand"
     /\ tree.command.identifier = "getint")
        => IF tree.command.expression.node = "VnameExpression"
           THEN /\ pc = "done"
                /\ code = <<Instr("LOAD_GLOBAL", "input", 0), Instr("CALL_FUNCTION", "", 0),
                            Instr("STORE_FAST", tree.command.expression.variable.identifier, 0),
                            Instr("RETURN_VALUE", "", 0)>>
           ELSE pc = "gen_error" /\ error.kind = "CodeGenError"

\* the load gen_expr emits for a literal or a bare variable
LoadOf(e) ==
    IF e.node = "IntegerExpression" THEN Instr("LOAD_CONST", "", e.value)
    ELSE Instr("LOAD_FAST", e.variable.identifier, 0)

\* C6: putint(e) is generated exactly when e is a literal or a bare variable:
\* the load of e, then the print (PRINT_ITEM, PRINT_NEWLINE; the generator
\* adds LOAD_CONST 0 after it); for every other e generate fails with
\* CodeGenError and returns no instructions.
C6_PutintLiteralOrVariableOnly ==
    (/\ pc \in TerminalPcs
     /\ tree.command.node = "CallCommand"
     /\ tree.command.identifier = "putint")
        => IF tree.command.expression.node \in {"IntegerExpression", "VnameExpression"}
           THEN /\ pc = "done"
                /\ code = <<LoadOf(tree.command.expression), Instr("PRINT_ITEM", "", 0),
                            Instr("PRINT_NEWLINE", "", 0), Instr("LOAD_CONST", "", 0),
                            Instr("RETURN_VALUE", "", 0)>>
           ELSE /\ pc = "gen_error"
                /\ error.kind = "CodeGenError"
                /\ code = <<>>

\* generate rejected putint of a compound expression
C6_Witness ==
    /\ pc = "gen_error"
    /\ tree.command.node = "CallCommand"
    /\ tree.command.identifier = "putint"
    /\ tree.command.expression.node = "BinaryExpression"

\* C7: in `var id : typename` the token after ':' must be an Identifier;
\* any other token there makes parse raise ParserError with that token's
\* position and kind.
C7_TypeNameMustBeIdentifier ==
    (/\ pc # "parse"
     /\ Len(tokens) >= 5
     /\ tokens[1].type = TK_LET /\ tokens[2].type = TK_VAR
     /\ tokens[3].type = TK_IDENTIFIER /\ tokens[4].type = TK_COLON
     /\ tokens[5].type # TK_IDENTIFIER)
        => (/\ pc = "parse_error"
            /\ error.kind = "ParserError"
            /\ error.pos = tokens[5].pos
            /\ error.type = tokens[5].type)

CommandStarters == {TK_IDENTIFIER, TK_BEGIN, TK_WHILE, TK_IF, TK_LET}

KeywordInitial(type) ==
    CASE type = TK_BEGIN -> "b" [] type = TK_CONST -> "c" [] type = TK_DO -> "d"
      [] type = TK_ELSE -> "e" [] type = TK_END -> "e" [] type = TK_IF -> "i"
      [] type = TK_IN -> "i" [] type = TK_LET -> "l" [] type = TK_THEN -> "t"
      [] type = TK_VAR -> "v" [] type = TK_WHILE -> "w"

\* tok.pos is the 0-based offset in txt of the first character of tok
TokenStartsAt(txt, tok) ==
    LET p == tok.pos
        first == txt[p + 1]
        runstart == p = 0 \/ ~isalnum(txt[p]) IN
    IF tok.type = TK_EOT THEN p = Len(txt)
    ELSE /\ p < Len(txt)
         /\ CASE tok.type = TK_IDENTIFIER -> isalpha(first) /\ runstart
              [] tok.type = TK_INTLITERAL -> isdigit(first) /\ runstart
              [] tok.type = TK_OPERATOR   -> first = tok.val
              [] tok.type = TK_SEMICOLON  -> first = ";"
              [] tok.type = TK_COLON      -> first = ":"
              [] tok.type = TK_BECOMES    -> first = ":" /\ p + 1 < Len(txt) /\ txt[p + 2] = "="
              [] tok.type = TK_IS         -> first = "~"
              [] tok.type = TK_LPAREN     -> first = "("
              [] tok.type = TK_RPAREN     -> first = ")"
              [] OTHER                    -> first = KeywordInitial(tok.type) /\ runstart

\* C8: when a command is expected and the current token is not an
\* Identifier, begin, while, if or let, parse raises ParserError with the
\* source offset of that token's first character and that token's kind, and
\* returns no tree; for `begin:=end` that is offset 5, kind Becomes.
C8_CommandErrorAtToken ==
    /\ (pc = "parse_error" /\ error.site = "parse_command")
           => LET tok == tokens[curindex + 1] IN
              /\ tok.type \notin CommandStarters
              /\ error = ParserError(tok.pos, tok.type, "parse_command")
              /\ TokenStartsAt(text, tok)
              /\ tree = NoTree
              /\ code = <<>>
    /\ (pc \in TerminalPcs \ {"scan_error"} /\ tokens[1].type \notin CommandStarters)
           => (/\ pc = "parse_error"
               /\ error = ParserError(tokens[1].pos, tokens[1].type, "parse_command"))
    /\ (/\ pc \in TerminalPcs \ {"scan_error"}
        /\ tokens[1].type = TK_BEGIN /\ tokens[2].type \notin CommandStarters)
           => (/\ pc = "parse_error"
               /\ error = ParserError(tokens[2].pos, tokens[2].type, "parse_command"))
    /\ (text = BeginBecomesText /\ pc \in TerminalPcs)
           => (/\ pc = "parse_error"
               /\ error.kind = "ParserError" /\ error.pos = 5 /\ error.type = TK_BECOMES)

\* `begin:=end` was rejected
C8_Witness ==
    /\ text = BeginBecomesText
    /\ pc = "parse_error"
    /\ error.site = "parse_command"

\* The precedence tier of an operator, 3 the tightest
Tier(op) == IF op \in {"*", "/", "\\"} THEN 3 ELSE IF op \in {"+", "-"} THEN 2 ELSE 1

\* how many parentheses are open before token k of the tokens l..
ParenDepth(toks, l, k) ==
    Cardinality({j \in l..(k - 1) : toks[j].type = TK_LPAREN})
        - Cardinality({j \in l..(k - 1) : toks[j].type = TK_RPAREN})

\* The tree the grammar gives the expression toks[l..r]: it splits at the
\* last operator of the loosest tier outside all parentheses; an expression
\* with no operator outside parentheses is a primary
RECURSIVE GrammarTree(_, _, _)
GrammarTree(toks, l, r) ==
    LET outer == {k \in l..r : toks[k].type = TK_OPERATOR /\ ParenDepth(toks, l, k) = 0}
        loosest == {k \in outer : \A j \in outer : Tier(toks[k].val) <= Tier(toks[j].val)}
        split == CHOOSE k \in loosest : \A j \in loosest : j <= k IN
    IF l = r
    THEN IF toks[l].type = TK_INTLITERAL THEN IntegerExpression(toks[l].num)
         ELSE VnameExpression(Vname(toks[l].val))
    ELSE IF outer = {} THEN GrammarTree(toks, l + 1, r - 1)
    ELSE BinaryExpression(GrammarTree(toks, l, split - 1), toks[split].val,
                          GrammarTree(toks, split + 1, r))

ExprTokenLists == {MkTokens(sh) : sh \in ExprShapeLists}

\* the tokens of `x := <chain>`
ExprTokens(ops, lo, hi) ==
    MkTokens(<<IdShape("x"), BecomesShape>> \o ChainShapes(ops, 1, lo, hi))

VarRef(name) == VnameExpression(Vname(name))

\* C9: expressions parse with three left-associative tiers, * / \ tighter
\* than + -, tighter than = < >; a parenthesised expression is a primary.
\* a<b<c is (a<b)<c, a-b-c is (a-b)-c, a+b*c is a+(b*c).
C9_ExprTiersLeftAssoc ==
    (pc # "parse" /\ tokens \in ExprTokenLists) =>
        /\ pc = "generate"
        /\ tree = Program(AssignCommand(Vname("x"), GrammarTree(tokens, 3, Len(tokens) - 1)))
        /\ tokens = ExprTokens(<<"<", "<">>, 1, 1) =>
               tree.command.expression =
                   BinaryExpression(BinaryExpression(VarRef("a"), "<", VarRef("b")), "<", VarRef("c"))
        /\ tokens = ExprTokens(<<"-", "-">>, 1, 1) =>
               tree.command.expression =
                   BinaryExpression(BinaryExpression(VarRef("a"), "-", VarRef("b")), "-", VarRef("c"))
        /\ tokens = ExprTokens(<<"+", "*">>, 1, 1) =>
               tree.command.expression =
                   BinaryExpression(VarRef("a"), "+", BinaryExpression(VarRef("b"), "*", VarRef("c")))
        /\ tokens = ExprTokens(<<"+", "*">>, 1, 2) =>
               tree.command.expression =
                   BinaryExpression(BinaryExpression(VarRef("a"), "+", VarRef("b")), "*", VarRef("c"))
        /\ tokens = ExprTokens(<<"-", "-">>, 2, 3) =>
               tree.command.expression =
                   BinaryExpression(VarRef("a"), "-", BinaryExpression(VarRef("b"), "-", VarRef("c")))

\* `x := a - (b - c)` was parsed
C9_Witness ==
    /\ pc = "generate"
    /\ tokens = ExprTokens(<<"-", "-">>, 2, 3)

BlockTokenLists == {MkTokens(sh) : sh \in BlockShapeLists}

\* the commands ("c"), semicolons and ends ("e") of a block's tokens from k on
RECURSIVE BlockItems(_, _)
BlockItems(toks, k) ==
    IF toks[k].type = TK_EOT THEN <<>>
    ELSE IF toks[k].type = TK_IDENTIFIER THEN <<"c">> \o BlockItems(toks, k + 3)
    ELSE IF toks[k].type = TK_SEMICOLON THEN <<";">> \o BlockItems(toks, k + 1)
    ELSE <<"e">> \o BlockItems(toks, k + 1)

\* the assignments `id := n` of a block's tokens from k on, in source order
RECURSIVE BlockCmds(_, _)
BlockCmds(toks, k) ==
    IF toks[k].type = TK_EOT THEN <<>>
    ELSE IF toks[k].type = TK_IDENTIFIER
    THEN <<AssignCommand(Vname(toks[k].val), IntegerExpression(toks[k + 2].num))>>
             \o BlockCmds(toks, k + 3)
    ELSE BlockCmds(toks, k + 1)

\* c1 ; c2 ; ... ; cn, optionally one more `;`, then end, and nothing after
ValidBlock(items) ==
    /\ Len(items) >= 2
    /\ items[Len(items)] = "e"
    /\ \A k \in 1..(Len(items) - 1) : items[k] = (IF k % 2 = 1 THEN "c" ELSE ";")

RECURSIVE LeftNest(_)
LeftNest(cmds) ==
    IF Len(cmds) = 1 THEN cmds[1]
    ELSE SequentialCommand(LeftNest(SubSeq(cmds, 1, Len(cmds) - 1)), cmds[Len(cmds)])

\* C10: `begin c1 ; ... ; cn end`, n >= 1, parses to the left-nested Sequence
\* of c1..cn in source order, with or without one `;` before `end`; two
\* consecutive `;`, an empty `begin end` and every other arrangement of the
\* items are rejected with ParserError.
C10_BlockLeftNested ==
    (pc # "parse" /\ tokens \in BlockTokenLists) =>
        IF ValidBlock(BlockItems(tokens, 2))
        THEN pc = "generate" /\ tree = Program(LeftNest(BlockCmds(tokens, 2)))
        ELSE pc = "parse_error" /\ error.kind = "ParserError" /\ tree = NoTree

\* a block of three commands with `;` before `end` was parsed
C10_Witness ==
    /\ pc = "generate"
    /\ tokens \in BlockTokenLists
    /\ BlockItems(tokens, 2) = <<"c", ";", "c", ";", "c", ";", "e">>

\* C11: parse ends in one of two outcomes.  Either it returns a Program, no
\* error, with the cursor on the final EOT (every token before it consumed);
\* or it raises one ParserError, carrying the position and kind of the token
\* the cursor stopped at, and returns no tree.  When a complete command is
\* followed by further tokens before EOT the outcome is the ParserError.
C11_ParseProgramOrError ==
    pc # "parse" =>
        /\ \/ /\ pc = "generate"
              /\ tree.node = "Program"
              /\ error = NoError
              /\ curindex = Len(tokens) - 1
              /\ tokens[curindex + 1].type = TK_EOT
           \/ /\ pc = "parse_error"
              /\ tree = NoTree
              /\ error.kind = "ParserError"
              /\ curindex \in 0..(Len(tokens) - 1)
              /\ error.pos = tokens[curindex + 1].pos
              /\ error.type = tokens[curindex + 1].type
        /\ LET c == parse_command(tokens, 0) IN
               (c.ok /\ c.idx < Len(tokens) - 1) => pc = "parse_error"

\* `a := 1 b := 2` was rejected at b
C11_Witness ==
    /\ pc = "parse_error"
    /\ tokens = MkTokens(CmdShapes(1) \o CmdShapes(2))
    /\ curindex = 3
    /\ error.type = TK_IDENTIFIER
    /\ error.pos = tokens[4].pos

LabelOps == {"LABEL", "JUMP_ABSOLUTE", "POP_JUMP_IF_FALSE"}

\* the instruction list c with every label of it renamed k further
Relabel(c, k) ==
    IF c = <<>> THEN <<>>
    ELSE [i \in 1..Len(c) |->
             IF c[i].op \in LabelOps THEN Instr(c[i].op, c[i].name, c[i].num + k)
             ELSE c[i]]

\* C12: the code of a While{cond, body} is label(L1), the code of cond,
\* jump-if-false(L2), the code of body (its own labels renamed), jump(L1),
\* label(L2), with L1 # L2 and neither of them a label of the body's code.
C12_WhileShape ==
    (pc = "done" /\ tree.command.node = "WhileCommand") =>
        LET cond == gen_expr(tree.command.expression, <<>>, 0).code
            body == gen_command(tree.command.command, <<>>, 0).code
            L1 == code[1].num
            L2 == code[Len(code) - 1].num IN
        /\ L1 # L2
        /\ \E k \in 0..3 :
               /\ code = <<Instr("LABEL", "", L1)>> \o cond
                             \o <<Instr("POP_JUMP_IF_FALSE", "", L2)>>
                             \o Relabel(body, k)
                             \o <<Instr("JUMP_ABSOLUTE", "", L1), Instr("LABEL", "", L2),
                                  Instr("RETURN_VALUE", "", 0)>>
               /\ \A i \in 1..Len(body) :
                      body[i].op \in LabelOps => body[i].num + k \notin {L1, L2}

\* a loop whose body is a conditional was generated
C12_Witness ==
    /\ pc = "done"
    /\ tree.command.node = "WhileCommand"
    /\ tree.command.command.node = "IfCommand"
    /\ Cardinality(Labels(code)) = 4

CursorInBounds ==
    /\ curindex \in 0..(Len(tokens) - 1)
    /\ curtoken = tokens[curindex + 1]

\* C13: under any sequence of token_accept and token_accept_any calls,
\* curindex stays an index of the token list and curtoken is the token at
\* curindex; once curtoken is EOT no call moves curindex or changes curtoken.
C13_CursorInvariant ==
    /\ [](pc \in {"cursor", "parse_error"} => CursorInBounds)
    /\ [][curtoken.type = TK_EOT => UNCHANGED <<curindex, curtoken>>]_vars

\* the cursor was moved over four tokens onto the final EOT
C13_Witness ==
    /\ pc = "cursor"
    /\ curindex = 4
    /\ Len(tokens) = 5
    /\ curtoken.type = TK_EOT

\* the operands an instruction of the target machine pops, and the values
\* it pushes (CPython 2 bytecode; LABEL is byteplay's pseudo-instruction)
Pops(ins) ==
    CASE ins.op \in {"LOAD_CONST", "LOAD_FAST", "LOAD_GLOBAL"} -> 0
      [] ins.op \in {"STORE_FAST", "PRINT_ITEM", "POP_JUMP_IF_FALSE", "RETURN_VALUE"} -> 1
      [] ins.op \in {"BINARY_ADD", "BINARY_SUBTRACT", "BINARY_MULTIPLY", "BINARY_DIVIDE",
                     "BINARY_MODULO", "COMPARE_OP"} -> 2
      [] ins.op = "CALL_FUNCTION" -> 1 + ins.num
      [] OTHER -> 0

Pushes(ins) ==
    CASE ins.op \in {"LOAD_CONST", "LOAD_FAST", "LOAD_GLOBAL", "CALL_FUNCTION"} -> 1
      [] ins.op \in {"BINARY_ADD", "BINARY_SUBTRACT", "BINARY_MULTIPLY", "BINARY_DIVIDE",
                     "BINARY_MODULO", "COMPARE_OP"} -> 1
      [] OTHER -> 0

\* the index at which label l is placed in c
LabelAt(c, l) == CHOOSE i \in 1..Len(c) : c[i].op = "LABEL" /\ c[i].num = l

\* the machine states <<index, stack depth>> that follow <<i, d>> in c; none
\* after the return, after an instruction lacking its operands, and beyond
\* MaxStack
Succ(c, i, d) ==
    IF d < Pops(c[i]) \/ c[i].op = "RETURN_VALUE" THEN {}
    ELSE LET e == d - Pops(c[i]) + Pushes(c[i])
             targets ==
                 CASE c[i].op = "JUMP_ABSOLUTE" -> {LabelAt(c, c[i].num)}
                   [] c[i].op = "POP_JUMP_IF_FALSE" -> {i + 1, LabelAt(c, c[i].num)}
                   [] OTHER -> {i + 1} IN
         {<<j, e>> : j \in {k \in targets : k <= Len(c) /\ e <= MaxStack}}

\* the machine states reachable in c from the states S
RECURSIVE Reach(_, _)
Reach(c, S) ==
    LET T == S \cup UNION {Succ(c, q[1], q[2]) : q \in S} IN
    IF T = S THEN S ELSE Reach(c, T)

\* no instruction of c runs on a stack lacking its operands, and every label
\* of c is reached with one stack depth only
StackSafe(c) ==
    LET R == Reach(c, {<<1, 0>>}) IN
    /\ \A q \in R : q[2] >= Pops(c[q[1]])
    /\ \A q, r \in R : (q[1] = r[1] /\ c[q[1]].op = "LABEL") => q[2] = r[2]

\* C14: the code generate returns obeys stack discipline: no instruction, the
\* terminal return included, runs on a stack lacking its operands, and the
\* stack depth at every label is the same along every path reaching it.
C14_StackDiscipline == pc = "done" => StackSafe(code)

\* the part of it that holds: code that ends in exactly one putint on every
\* path is safe (the LOAD_CONST 0 putint leaves is what the return pops)
C14_SinglePutintIsSafe ==
    (pc = "done" /\ tree.command.node = "CallCommand"
        /\ tree.command.identifier = "putint") => StackSafe(code)

=============================================================================
